---- MODULE Spec2Model ----
(***************************************************************************)
(* vault-manager: reconciliation of declared auth mounts and policies      *)
(* against a remote Vault service.                                         *)
(*                                                                         *)
(* One invocation of the command line runs one module (auth, policies).    *)
(* The remote client (lib/VaultClient.py) and the mount record             *)
(* (lib/VaultAuthMethod.py) are collaborators whose code is not part of    *)
(* the three module files; they are modelled from the design document.     *)
(***************************************************************************)
EXTENDS Integers, Sequences, FiniteSets, TLC

VARIABLES
    module,                 \* which module the command line selected
    pc,                     \* position of the running module
    mode,                   \* "first" invocation, or the second one: "rerun" (on the remote state the first
                            \* left) or "twin" (same inputs, other dry mode)
    dry,                    \* VaultClient dry flag (kwargs.dry_run)
    err,                    \* "none", "remote" (remote call failed), "config" (configuration error)
    file,                   \* auth-methods.yml on disk
    conf,                   \* VaultManagerAuth.conf
    remote,                 \* auth mounts held by the remote service
    remote0,                \* auth mounts held by the remote service when the invocation started
    local_auth_methods,     \* VaultManagerAuth.local_auth_methods
    distant_auth_methods,   \* VaultManagerAuth.distant_auth_methods
    i, j,                   \* loop positions
    calls,                  \* calls made on the VaultClient in this invocation, in order
    prev_calls,             \* calls of the previous invocation
    policy_files,           \* <policies_folder>/<directory>/<stem>.hcl files on disk, in glob order
    remote_policies,        \* policies held by the remote service, in listing order
    remote_policies0,       \* policies held by the remote service when the invocation started
    distant_policies,       \* policies_push: distant_policies
    local_policies,         \* policies_push: local_policies
    reports,                \* "created"/"updated" log records of policies_push, in order
    policy_dirs,            \* directories under <policies_folder> on disk
    policy_files0,          \* the policy files on disk when the invocation started
    entry,                  \* "run" when the module was entered through run, "method" when the
                            \* operation (auth_push, policies_push, policies_pull) was entered directly
    args,                   \* the parsed command line (kwargs / parsed_args)
    environ,                \* names of the environment variables that are set (os.environ)
    client_log,             \* VaultClient objects created and authenticated, in order
    outcome,                \* how run ended: "none", "False" or the exception raised
    source,                 \* secrets held by the instance at VAULT_ADDR, by path
    target,                 \* secrets held by the instance at VAULT_TARGET_ADDR, by path
    target0,                \* secrets held by the target when the invocation started
    kv_list,                \* read_from_vault: kv_list
    kv_full,                \* read_from_vault: kv_full, in insertion order
    log                     \* records emitted by the logger of VaultManagerKV, in order

vars == <<module, pc, mode, dry, err, file, conf, remote, remote0,
          local_auth_methods, distant_auth_methods, i, j, calls, prev_calls,
          policy_files, remote_policies, remote_policies0, distant_policies, local_policies,
          reports, policy_dirs, policy_files0,
          entry, args, environ, client_log, outcome,
          source, target, target0, kv_list, kv_full, log>>

authState == <<file, conf, remote, remote0, local_auth_methods, distant_auth_methods, j>>

policyState == <<policy_files, remote_policies, remote_policies0, distant_policies,
                 local_policies, reports>>

pullState == <<policy_dirs, policy_files0>>

runState == <<entry, args, environ, client_log, outcome>>

kvState == <<source, target, target0, kv_list, kv_full, log>>

(***************************************************************************)
(* Bounds of the model                                                     *)
(***************************************************************************)
MaxDeclared == 2      \* entries of "auth-methods" in auth-methods.yml

(***************************************************************************)
(* Values                                                                  *)
(***************************************************************************)
Types == {"ldap", "approle", "token"}
Paths == {"p", "q"}
PathOrder == <<"p", "q">>

\* tuning mappings (key -> value)
T1 == [default_lease_ttl |-> 1, max_lease_ttl |-> 1]
T2 == [default_lease_ttl |-> 2, max_lease_ttl |-> 2]
TX == [default_lease_ttl |-> 1, max_lease_ttl |-> 1, listing_visibility |-> 1]
TM == [max_lease_ttl |-> 1]
EmptyMap == [k \in {} |-> 0]
\* config of a mount that was just enabled
DefaultTuning == [default_lease_ttl |-> 0, max_lease_ttl |-> 0]

LocalDescription == "dl"
RemoteDescription == "dr"

\* an entry of conf["auth-methods"] as written in the yaml file
RawMethod(t, p, hasTuning, tuning, cfg) ==
    [type |-> t, path |-> p, description |-> LocalDescription,
     has_tuning |-> hasTuning, tuning |-> tuning, auth_config |-> cfg]

\* the first declared entry: well-formed ones, one whose tuning lacks
\* default_lease_ttl, one without the tuning field, one with "auth_config: {}",
\* one tuned like a freshly enabled mount
FirstPool ==
    {RawMethod(t, p, TRUE, tu, c) : t \in Types, p \in Paths, tu \in {T1, TX}, c \in {"None", "cfg"}}
    \cup {RawMethod(t, p, TRUE, TM, "None") : t \in Types, p \in Paths}
    \cup {RawMethod(t, p, FALSE, EmptyMap, "None") : t \in Types, p \in Paths}
    \cup {RawMethod(t, "p", TRUE, T1, "empty") : t \in {"ldap", "approle"}}
    \cup {RawMethod("token", "q", TRUE, DefaultTuning, "None")}

\* the entries after the first
RestPool ==
    {RawMethod(t, p, TRUE, T2, "None") : t \in {"ldap", "token"}, p \in Paths}

RECURSIVE RestLists(_)
RestLists(n) ==
    IF n = 0 THEN {<<>>}
    ELSE RestLists(n - 1) \cup {Append(s, m) : s \in {x \in RestLists(n - 1) : Len(x) = n - 1}, m \in RestPool}

DeclaredLists ==
    {<<>>} \cup {<<m>> \o s : m \in FirstPool, s \in RestLists(MaxDeclared - 1)}

NoDoc == [has_methods |-> FALSE, deletion |-> "absent", methods |-> <<>>]

ConfFiles ==
    {[state |-> "missing", doc |-> NoDoc], [state |-> "unparseable", doc |-> NoDoc],
     [state |-> "ok", doc |-> NoDoc]}
    \cup {[state |-> "ok", doc |-> [has_methods |-> TRUE, deletion |-> d, methods |-> ms]] :
            d \in {"absent", "false", "true"}, ms \in DeclaredLists}

NoConf == [loaded |-> FALSE, has_methods |-> FALSE, deletion |-> "absent", methods |-> <<>>]

RemoteMount(t, p, d, c) == [type |-> t, path |-> p, description |-> d, config |-> c]

RemoteAt(p) ==
    IF p = "p"
    THEN {{}, {RemoteMount("ldap", p, RemoteDescription, T1)}, {RemoteMount("ldap", p, RemoteDescription, T2)},
          {RemoteMount("token", p, RemoteDescription, T1)}}
    ELSE {{}, {RemoteMount("token", p, RemoteDescription, T1)}, {RemoteMount("ldap", p, RemoteDescription, T2)}}

Remotes == {a \cup b : a \in RemoteAt("p"), b \in RemoteAt("q")}

(***************************************************************************)
(* lib/VaultAuthMethod.py, from the design document                        *)
(***************************************************************************)
VaultAuthMethod(t, p, d, tuning, cfg) ==
    [type |-> t, path |-> p, description |-> d, tuning |-> tuning, auth_config |-> cfg]

AuthEq(a, b) == a.path = b.path /\ a.type = b.type

TuningHash(m) == {<<k, m.tuning[k]>> : k \in DOMAIN m.tuning}

InList(m, ms) == \E n \in 1..Len(ms) : AuthEq(m, ms[n])

(***************************************************************************)
(* lib/VaultClient.py and the remote service, from the design document     *)
(***************************************************************************)
Call(op, t, p, dl, ml, d, cfg) ==
    [op |-> op, type |-> t, path |-> p, default_lease_ttl |-> dl, max_lease_ttl |-> ml,
     description |-> d, auth_config |-> cfg]

Occupied(r, p) == \E m \in r : m.path = p

AuthList(r) ==
    LET at(n) == {m \in r : m.path = PathOrder[n]}
        F[n \in 0..Len(PathOrder)] ==
            IF n = 0 THEN <<>>
            ELSE IF at(n) = {} THEN F[n - 1]
            ELSE Append(F[n - 1], CHOOSE m \in at(n) : TRUE)
    IN F[Len(PathOrder)]

AuthEnable(r, d, t, p, desc) ==
    IF d THEN r ELSE r \cup {RemoteMount(t, p, desc, DefaultTuning)}

AuthDisable(r, d, p) ==
    IF d THEN r ELSE {m \in r : m.path # p}

AuthTune(r, d, p, dl, ml, desc) ==
    IF d THEN r
    ELSE {IF m.path = p
          THEN [m EXCEPT !.description = desc,
                         !.config = [m.config EXCEPT !.default_lease_ttl = dl, !.max_lease_ttl = ml]]
          ELSE m : m \in r}

(***************************************************************************)
(* VaultManagerAuth                                                        *)
(***************************************************************************)
\* get_distant_auth_methods: the listing as VaultAuthMethod records
GetDistant(r) ==
    LET raw == AuthList(r)
    IN [n \in 1..Len(raw) |->
            VaultAuthMethod(raw[n].type, raw[n].path, raw[n].description, raw[n].config, "None")]

\* get_local_auth_methods: the declared entries as VaultAuthMethod records
GetLocal(ms) ==
    [n \in 1..Len(ms) |->
        VaultAuthMethod(ms[n].type, ms[n].path, ms[n].description, ms[n].tuning, ms[n].auth_config)]

LocalReadable(c) ==
    /\ c.loaded
    /\ c.has_methods
    /\ \A n \in 1..Len(c.methods) : c.methods[n].has_tuning

\* mutant: the key's presence is taken for its value
DeletionKeyPresent(c) == c.deletion # "absent"

DeletionEnabled(c) == c.deletion # "absent" /\ c.deletion = "true"

\* mutant: an observed mount is looked up by its path alone
ToDisableByPath(m, locals) == \A n \in 1..Len(locals) : locals[n].path # m.path

ToDisable(m, locals) == ~InList(m, locals)

\* mutant: a declared mount is looked up by its path alone
ToEnableByPath(m, distants) == \A n \in 1..Len(distants) : distants[n].path # m.path

ToEnable(m, distants) == ~InList(m, distants)

NeedsTune(l, d) == AuthEq(d, l) /\ TuningHash(d) # TuningHash(l)

TuneReadable(l) ==
    "default_lease_ttl" \in DOMAIN l.tuning /\ "max_lease_ttl" \in DOMAIN l.tuning

DisableCall(m) == Call("disable", "-", m.path, -1, -1, "-", "-")

EnableCall(m) == Call("enable", m.type, m.path, -1, -1, m.description, "-")

\* mutant: the tune call is built from the remote mount
TuneCallFromDistant(l, d) ==
    Call("tune", "-", d.path, d.tuning.default_lease_ttl, d.tuning.max_lease_ttl, d.description, "-")

TuneCall(l, d) ==
    Call("tune", "-", l.path, l.tuning.default_lease_ttl, l.tuning.max_lease_ttl, l.description, "-")

\* truth value of an auth_config: None and the empty mapping are false
Truthy(cfg) == cfg \notin {"None", "empty"}

\* mutant: the approle branch is missing
ConfiguratorLdapOnly(m) ==
    IF Truthy(m.auth_config) /\ m.type = "ldap" THEN "AuthMethodLDAP" ELSE "None"

Configurator(m) ==
    IF Truthy(m.auth_config)
    THEN IF m.type = "ldap" THEN "AuthMethodLDAP"
         ELSE IF m.type = "approle" THEN "AuthMethodAppRole"
         ELSE "None"
    ELSE "None"

ConfigureCall(m) == Call("configure", m.type, m.path, -1, -1, "-", m.auth_config)

ListCall == Call("list", "-", "-", -1, -1, "-", "-")

\* mutant: the enable step is run before the disable step
AfterStepEnableFirst(step, c) ==
    CASE step = "read_configuration" -> "get_distant"
      [] step = "get_distant" -> "get_local"
      [] step = "get_local" -> "enable"
      [] step = "enable" -> IF c.deletion = "true" THEN "disable" ELSE "refresh"
      [] step = "disable" -> "refresh"
      [] step = "refresh" -> "tune"
      [] step = "tune" -> "configure"
      [] step = "configure" -> "done"

\* mutant: the listing is not fetched again after the enable step
AfterStepNoRefresh(step, c) ==
    CASE step = "read_configuration" -> "get_distant"
      [] step = "get_distant" -> "get_local"
      [] step = "get_local" -> IF c.deletion = "true" THEN "disable" ELSE "enable"
      [] step = "disable" -> "enable"
      [] step = "enable" -> "tune"
      [] step = "refresh" -> "tune"
      [] step = "tune" -> "configure"
      [] step = "configure" -> "done"

\* the statement of auth_push that follows a finished step
AfterStep(step, c) ==
    CASE step = "read_configuration" -> "get_distant"
      [] step = "get_distant" -> "get_local"
      [] step = "get_local" -> IF DeletionEnabled(c) THEN "disable" ELSE "enable"
      [] step = "disable" -> "enable"
      [] step = "enable" -> "refresh"
      [] step = "refresh" -> "tune"
      [] step = "tune" -> "configure"
      [] step = "configure" -> "done"

\* mutant: the exception is caught and the step goes on
OnExceptionSwallowed(step) == step

\* mutant: a failed listing or read of the KV export goes on to the push
OnExceptionResume(step) ==
    IF step \in {"kv_tree", "kv_read"} THEN "kv_push_client" ELSE "aborted"

\* an exception leaves auth_push and run: nothing catches it
OnException(step) == "aborted"

Raise(kind) ==
    /\ err' = kind
    /\ pc' = OnException(pc)

AuthRunning == module = "auth"

ReadConfiguration ==
    /\ AuthRunning /\ pc = "read_configuration"
    /\ \/ /\ file.state = "missing"
          /\ Raise("config")
          /\ conf' = conf
       \/ /\ file.state = "unparseable"
          /\ conf' = conf
          /\ pc' = AfterStep(pc, conf)
          /\ err' = err
       \/ /\ file.state = "ok"
          /\ conf' = [loaded |-> TRUE, has_methods |-> file.doc.has_methods,
                      deletion |-> file.doc.deletion, methods |-> file.doc.methods]
          /\ pc' = AfterStep(pc, conf')
          /\ err' = err
    /\ UNCHANGED <<module, mode, dry, file, remote, remote0, local_auth_methods,
                   distant_auth_methods, i, j, calls, prev_calls>>
    /\ UNCHANGED policyState
    /\ UNCHANGED pullState
    /\ UNCHANGED runState
    /\ UNCHANGED kvState

GetDistantAuthMethods ==
    /\ AuthRunning /\ pc \in {"get_distant", "refresh"}
    /\ calls' = Append(calls, ListCall)
    /\ \/ /\ distant_auth_methods' = GetDistant(remote)
          /\ pc' = AfterStep(pc, conf)
          /\ err' = err
       \/ /\ Raise("remote")
          /\ distant_auth_methods' = <<>>
    /\ i' = 1 /\ j' = 1
    /\ UNCHANGED <<module, mode, dry, file, conf, remote, remote0, local_auth_methods,
                   prev_calls>>
    /\ UNCHANGED policyState
    /\ UNCHANGED pullState
    /\ UNCHANGED runState
    /\ UNCHANGED kvState

GetLocalAuthMethods ==
    /\ AuthRunning /\ pc = "get_local"
    /\ \/ /\ LocalReadable(conf)
          /\ local_auth_methods' = GetLocal(conf.methods)
          /\ pc' = AfterStep(pc, conf)
          /\ err' = err
       \/ /\ ~LocalReadable(conf)
          /\ Raise("config")
          /\ local_auth_methods' = <<>>
    /\ i' = 1 /\ j' = 1
    /\ UNCHANGED <<module, mode, dry, file, conf, remote, remote0, distant_auth_methods,
                   calls, prev_calls>>
    /\ UNCHANGED policyState
    /\ UNCHANGED pullState
    /\ UNCHANGED runState
    /\ UNCHANGED kvState

DisableDistantAuthMethods ==
    /\ AuthRunning /\ pc = "disable"
    /\ \/ /\ i > Len(distant_auth_methods)
          /\ pc' = AfterStep(pc, conf) /\ i' = 1
          /\ UNCHANGED <<err, remote, calls>>
       \/ /\ i <= Len(distant_auth_methods)
          /\ ~ToDisable(distant_auth_methods[i], local_auth_methods)
          /\ i' = i + 1
          /\ UNCHANGED <<pc, err, remote, calls>>
       \/ /\ i <= Len(distant_auth_methods)
          /\ ToDisable(distant_auth_methods[i], local_auth_methods)
          /\ calls' = Append(calls, DisableCall(distant_auth_methods[i]))
          /\ \/ /\ remote' = AuthDisable(remote, dry, distant_auth_methods[i].path)
                /\ i' = i + 1
                /\ UNCHANGED <<pc, err>>
             \/ /\ ~dry
                /\ Raise("remote")
                /\ UNCHANGED <<remote, i>>
    /\ UNCHANGED <<module, mode, dry, file, conf, remote0, local_auth_methods,
                   distant_auth_methods, j, prev_calls>>
    /\ UNCHANGED policyState
    /\ UNCHANGED pullState
    /\ UNCHANGED runState
    /\ UNCHANGED kvState

EnableDistantAuthMethods ==
    /\ AuthRunning /\ pc = "enable"
    /\ \/ /\ i > Len(local_auth_methods)
          /\ pc' = AfterStep(pc, conf) /\ i' = 1
          /\ UNCHANGED <<err, remote, calls>>
       \/ /\ i <= Len(local_auth_methods)
          /\ ~ToEnable(local_auth_methods[i], distant_auth_methods)
          /\ i' = i + 1
          /\ UNCHANGED <<pc, err, remote, calls>>
       \/ /\ i <= Len(local_auth_methods)
          /\ ToEnable(local_auth_methods[i], distant_auth_methods)
          /\ calls' = Append(calls, EnableCall(local_auth_methods[i]))
          /\ \/ /\ dry \/ ~Occupied(remote, local_auth_methods[i].path)
                /\ remote' = AuthEnable(remote, dry, local_auth_methods[i].type,
                                        local_auth_methods[i].path, local_auth_methods[i].description)
                /\ i' = i + 1
                /\ UNCHANGED <<pc, err>>
             \/ /\ ~dry
                /\ Raise("remote")
                /\ UNCHANGED <<remote, i>>
    /\ UNCHANGED <<module, mode, dry, file, conf, remote0, local_auth_methods,
                   distant_auth_methods, j, prev_calls>>
    /\ UNCHANGED policyState
    /\ UNCHANGED pullState
    /\ UNCHANGED runState
    /\ UNCHANGED kvState

\* the pair after (a, b) in the nested loops of find_auth_methods_to_tune
NextPairI(a, b) == IF b < Len(local_auth_methods) THEN a ELSE a + 1
NextPairJ(a, b) == IF b < Len(local_auth_methods) THEN b + 1 ELSE 1

FindAuthMethodsToTune ==
    /\ AuthRunning /\ pc = "tune"
    /\ \/ /\ i > Len(distant_auth_methods) \/ Len(local_auth_methods) = 0
          /\ pc' = AfterStep(pc, conf) /\ i' = 1 /\ j' = 1
          /\ UNCHANGED <<err, remote, calls>>
       \/ /\ i <= Len(distant_auth_methods) /\ Len(local_auth_methods) > 0
          /\ ~NeedsTune(local_auth_methods[j], distant_auth_methods[i])
          /\ i' = NextPairI(i, j) /\ j' = NextPairJ(i, j)
          /\ UNCHANGED <<pc, err, remote, calls>>
       \/ /\ i <= Len(distant_auth_methods) /\ Len(local_auth_methods) > 0
          /\ NeedsTune(local_auth_methods[j], distant_auth_methods[i])
          /\ \/ /\ ~TuneReadable(local_auth_methods[j])
                /\ Raise("config")
                /\ UNCHANGED <<remote, calls, i, j>>
             \/ /\ TuneReadable(local_auth_methods[j])
                /\ calls' = Append(calls, TuneCall(local_auth_methods[j], distant_auth_methods[i]))
                /\ \/ /\ remote' = AuthTune(remote, dry, local_auth_methods[j].path,
                                            local_auth_methods[j].tuning.default_lease_ttl,
                                            local_auth_methods[j].tuning.max_lease_ttl,
                                            local_auth_methods[j].description)
                      /\ i' = NextPairI(i, j) /\ j' = NextPairJ(i, j)
                      /\ UNCHANGED <<pc, err>>
                   \/ /\ ~dry
                      /\ Raise("remote")
                      /\ UNCHANGED <<remote, i, j>>
    /\ UNCHANGED <<module, mode, dry, file, conf, remote0, local_auth_methods,
                   distant_auth_methods, prev_calls>>
    /\ UNCHANGED policyState
    /\ UNCHANGED pullState
    /\ UNCHANGED runState
    /\ UNCHANGED kvState

AuthMethodConfiguration ==
    /\ AuthRunning /\ pc = "configure"
    /\ \/ /\ i > Len(local_auth_methods)
          /\ pc' = AfterStep(pc, conf) /\ i' = 1
          /\ UNCHANGED <<err, calls>>
       \/ /\ i <= Len(local_auth_methods)
          /\ Configurator(local_auth_methods[i]) = "None"
          /\ i' = i + 1
          /\ UNCHANGED <<pc, err, calls>>
       \/ /\ i <= Len(local_auth_methods)
          /\ Configurator(local_auth_methods[i]) # "None"
          /\ calls' = Append(calls, ConfigureCall(local_auth_methods[i]))
          /\ \/ /\ i' = i + 1
                /\ UNCHANGED <<pc, err>>
             \/ /\ ~dry
                /\ Raise("remote")
                /\ i' = i
    /\ UNCHANGED <<module, mode, dry, file, conf, remote, remote0, local_auth_methods,
                   distant_auth_methods, j, prev_calls>>
    /\ UNCHANGED policyState
    /\ UNCHANGED pullState
    /\ UNCHANGED runState
    /\ UNCHANGED kvState

(***************************************************************************)
(* Strings of policy names: sequences of characters                        *)
(***************************************************************************)
POLICY == <<"p", "o", "l", "i", "c", "y">>

\* str.split(sep)
RECURSIVE Split(_, _)
Split(s, sep) ==
    IF \A n \in 1..Len(s) : s[n] # sep
    THEN <<s>>
    ELSE LET k == CHOOSE n \in 1..Len(s) : s[n] = sep /\ \A m \in 1..(n - 1) : s[m] # sep
         IN <<SubSeq(s, 1, k - 1)>> \o Split(SubSeq(s, k + 1, Len(s)), sep)

\* mutant: the third segment of the name is not looked at
MatchesPatternAnySuffix(policy) == Len(Split(policy, "_")) = 3

\* policies_pull: the names that match the pattern 'type_name_policy'
MatchesPattern(policy) ==
    LET splitted == Split(policy, "_")
    IN ~(Len(splitted) # 3 \/ splitted[3] # POLICY)

\* mutant: the separator between prefix and name is missing
PolicyNameNoSeparator(prefix, name) == prefix \o name \o <<"_">> \o POLICY

\* policies_push: prefix + "_" + name + "_policy"
PolicyName(prefix, name) == prefix \o <<"_">> \o name \o <<"_">> \o POLICY

MaxFiles == 2         \* policy files on disk
MaxRemote == 2        \* policies held by the remote service

Directories == {<<"a">>, <<"a", "_", "b">>}
Stems == {<<"c">>, <<"b", "_", "c">>}
Contents == {"h1", "h2"}
RemoteContent == "h0"

RemoteNames ==
    {PolicyName(<<"a">>, <<"b">>), PolicyName(<<"a">>, <<"c">>),
     PolicyName(<<"a">>, <<"b", "_", "c">>),
     <<"c", "_", "u">>}

PolicyFile(d, n, c) == [directory |-> d, stem |-> n, content |-> c]

RECURSIVE FileLists(_)
FileLists(n) ==
    IF n = 0 THEN {<<>>}
    ELSE FileLists(n - 1) \cup
         {Append(s, PolicyFile(d, st, c)) :
            s \in {x \in FileLists(n - 1) : Len(x) = n - 1},
            d \in Directories, st \in Stems, c \in Contents}

\* a directory holds one file of a given name
DistinctFiles(fs) ==
    \A a, b \in 1..Len(fs) :
        a # b => (fs[a].directory # fs[b].directory \/ fs[a].stem # fs[b].stem)

RECURSIVE RemoteLists(_)
RemoteLists(n) ==
    IF n = 0 THEN {<<>>}
    ELSE RemoteLists(n - 1) \cup
         {Append(s, [name |-> nm, content |-> RemoteContent]) :
            s \in {x \in RemoteLists(n - 1) : Len(x) = n - 1}, nm \in RemoteNames}

\* the remote service holds one policy of a given name
DistinctNames(ps) == \A a, b \in 1..Len(ps) : a # b => ps[a].name # ps[b].name

(***************************************************************************)
(* lib/VaultClient.py policy calls, from the design document               *)
(***************************************************************************)
PolicyCall(op, name, content) == [op |-> op, name |-> name, content |-> content]

PolicyList(r) == [n \in 1..Len(r) |-> r[n].name]

PolicyDelete(r, d, name) ==
    IF d THEN r ELSE SelectSeq(r, LAMBDA pol : pol.name # name)

PolicySet(r, d, name, content) ==
    IF d THEN r
    ELSE IF \E n \in 1..Len(r) : r[n].name = name
         THEN [n \in 1..Len(r) |-> IF r[n].name = name THEN [r[n] EXCEPT !.content = content] ELSE r[n]]
         ELSE Append(r, [name |-> name, content |-> content])

(***************************************************************************)
(* VaultManagerPolicies.policies_push                                      *)
(***************************************************************************)
\* Building local policies list
BuildLocalPolicies(fs) ==
    [n \in 1..Len(fs) |->
        [name |-> PolicyName(fs[n].directory, fs[n].stem), content |-> fs[n].content]]

LocalNames(ls) == {ls[n].name : n \in 1..Len(ls)}

\* mutant: every distant policy is removed before the push
ToRemoveAll(distant_policy, ls) == TRUE

\* Removing distant policies which doesn't exists locally
ToRemove(distant_policy, ls) == distant_policy \notin LocalNames(ls)

\* mutant: the name is looked up after policy_set has written it
ReportOfAfterSet(name, distants) == "updated"

ReportOf(name, distants) ==
    IF \E n \in 1..Len(distants) : distants[n] = name THEN "updated" ELSE "created"

PolicyAfterStep(step) ==
    CASE step = "policy_list" -> "build_local"
      [] step = "build_local" -> "remove"
      [] step = "remove" -> "push"
      [] step = "push" -> "done"

PolicyRunning == module = "policies"

PushListPolicies ==
    /\ PolicyRunning /\ pc = "policy_list"
    /\ calls' = Append(calls, PolicyCall("list", <<>>, "-"))
    /\ \/ /\ distant_policies' = PolicyList(remote_policies)
          /\ pc' = PolicyAfterStep(pc)
          /\ err' = err
       \/ /\ Raise("remote")
          /\ distant_policies' = <<>>
    /\ UNCHANGED <<module, mode, dry, i, prev_calls, policy_files, remote_policies,
                   remote_policies0, local_policies, reports>>
    /\ UNCHANGED authState
    /\ UNCHANGED pullState
    /\ UNCHANGED runState
    /\ UNCHANGED kvState

PushBuildLocal ==
    /\ PolicyRunning /\ pc = "build_local"
    /\ local_policies' = BuildLocalPolicies(policy_files)
    /\ pc' = PolicyAfterStep(pc) /\ i' = 1
    /\ UNCHANGED <<module, mode, dry, err, calls, prev_calls, policy_files, remote_policies,
                   remote_policies0, distant_policies, reports>>
    /\ UNCHANGED authState
    /\ UNCHANGED pullState
    /\ UNCHANGED runState
    /\ UNCHANGED kvState

PushRemoveDistant ==
    /\ PolicyRunning /\ pc = "remove"
    /\ \/ /\ i > Len(distant_policies)
          /\ pc' = PolicyAfterStep(pc) /\ i' = 1
          /\ UNCHANGED <<err, remote_policies, calls>>
       \/ /\ i <= Len(distant_policies)
          /\ ~ToRemove(distant_policies[i], local_policies)
          /\ i' = i + 1
          /\ UNCHANGED <<pc, err, remote_policies, calls>>
       \/ /\ i <= Len(distant_policies)
          /\ ToRemove(distant_policies[i], local_policies)
          /\ calls' = Append(calls, PolicyCall("delete", distant_policies[i], "-"))
          /\ \/ /\ remote_policies' = PolicyDelete(remote_policies, dry, distant_policies[i])
                /\ i' = i + 1
                /\ UNCHANGED <<pc, err>>
             \/ /\ ~dry
                /\ Raise("remote")
                /\ UNCHANGED <<remote_policies, i>>
    /\ UNCHANGED <<module, mode, dry, prev_calls, policy_files, remote_policies0,
                   distant_policies, local_policies, reports>>
    /\ UNCHANGED authState
    /\ UNCHANGED pullState
    /\ UNCHANGED runState
    /\ UNCHANGED kvState

PushLocalPolicies ==
    /\ PolicyRunning /\ pc = "push"
    /\ \/ /\ i > Len(local_policies)
          /\ pc' = PolicyAfterStep(pc) /\ i' = 1
          /\ UNCHANGED <<err, remote_policies, calls, reports>>
       \/ /\ i <= Len(local_policies)
          /\ calls' = Append(calls, PolicyCall("set", local_policies[i].name, local_policies[i].content))
          /\ \/ /\ remote_policies' = PolicySet(remote_policies, dry, local_policies[i].name,
                                                local_policies[i].content)
                /\ reports' = Append(reports, [name |-> local_policies[i].name,
                                               status |-> ReportOf(local_policies[i].name, distant_policies)])
                /\ i' = i + 1
                /\ UNCHANGED <<pc, err>>
             \/ /\ ~dry
                /\ Raise("remote")
                /\ UNCHANGED <<remote_policies, reports, i>>
    /\ UNCHANGED <<module, mode, dry, prev_calls, policy_files, remote_policies0,
                   distant_policies, local_policies>>
    /\ UNCHANGED authState
    /\ UNCHANGED pullState
    /\ UNCHANGED runState
    /\ UNCHANGED kvState

(***************************************************************************)
(* VaultManagerPolicies.policies_pull                                      *)
(***************************************************************************)
DirectoriesOf(fs) == {fs[n].directory : n \in 1..Len(fs)}

\* names held by the remote service when policies are pulled, each with its content
PullPool ==
    {[name |-> PolicyName(<<"a">>, <<"c">>), content |-> "h0"],
     [name |-> PolicyName(<<"b">>, <<"c">>), content |-> "h3"],
     [name |-> PolicyName(<<"a">>, <<"b", "_", "c">>), content |-> "h4"],
     [name |-> <<"f", "o", "o">>, content |-> "h5"],
     [name |-> <<"a", "_", "b">>, content |-> "h6"],
     [name |-> <<"a", "_", "b", "_", "c", "_", "d">>, content |-> "h7"],
     [name |-> <<"a", "_", "b", "_", "n", "o", "t">> \o POLICY, content |-> "h8"]}

RECURSIVE PullLists(_)
PullLists(n) ==
    IF n = 0 THEN {<<>>}
    ELSE PullLists(n - 1) \cup
         {Append(s, pol) : s \in {x \in PullLists(n - 1) : Len(x) = n - 1}, pol \in PullPool}

\* the policies folder before a pull: empty, holding an empty directory, holding a file
PullDisks ==
    {[files |-> <<>>, dirs |-> {}],
     [files |-> <<>>, dirs |-> {<<"a">>}],
     [files |-> <<PolicyFile(<<"a">>, <<"c">>, "h1")>>, dirs |-> {<<"a">>}]}

\* policy_get of lib/VaultClient.py, from the design document
PolicyGet(r, name) == (CHOOSE pol \in {r[n] : n \in 1..Len(r)} : pol.name = name).content

\* open(policy_path, 'w+') followed by fd.write(content)
WriteFile(fs, d, st, content) ==
    IF \E n \in 1..Len(fs) : fs[n].directory = d /\ fs[n].stem = st
    THEN [n \in 1..Len(fs) |->
             IF fs[n].directory = d /\ fs[n].stem = st
             THEN [fs[n] EXCEPT !.content = content] ELSE fs[n]]
    ELSE Append(fs, PolicyFile(d, st, content))

PullAfterStep(step) ==
    CASE step = "pull_list" -> "pull"
      [] step = "pull" -> "pulled"

PullListPolicies ==
    /\ PolicyRunning /\ pc = "pull_list"
    /\ calls' = Append(calls, PolicyCall("list", <<>>, "-"))
    /\ \/ /\ distant_policies' = PolicyList(remote_policies)
          /\ pc' = PullAfterStep(pc)
          /\ err' = err
       \/ /\ Raise("remote")
          /\ distant_policies' = <<>>
    /\ UNCHANGED <<module, mode, dry, i, prev_calls, policy_files, remote_policies,
                   remote_policies0, local_policies, reports>>
    /\ UNCHANGED authState
    /\ UNCHANGED pullState
    /\ UNCHANGED runState
    /\ UNCHANGED kvState

\* one turn of the loop over distant_policies
PullPolicy ==
    /\ PolicyRunning /\ pc = "pull"
    /\ \/ /\ i > Len(distant_policies)
          /\ pc' = PullAfterStep(pc) /\ i' = 1
          /\ UNCHANGED <<err, calls, policy_files, policy_dirs>>
       \/ /\ i <= Len(distant_policies)
          /\ ~MatchesPattern(distant_policies[i])
          /\ i' = i + 1
          /\ UNCHANGED <<pc, err, calls, policy_files, policy_dirs>>
       \/ /\ i <= Len(distant_policies)
          /\ MatchesPattern(distant_policies[i])
          /\ LET splitted == Split(distant_policies[i], "_")
             IN /\ policy_dirs' = policy_dirs \cup {splitted[1]}
                /\ calls' = Append(calls, PolicyCall("get", distant_policies[i], "-"))
                /\ \/ /\ policy_files' = WriteFile(policy_files, splitted[1], splitted[2],
                                                   PolicyGet(remote_policies, distant_policies[i]))
                      /\ i' = i + 1
                      /\ UNCHANGED <<pc, err>>
                   \/ /\ Raise("remote")
                      /\ policy_files' = WriteFile(policy_files, splitted[1], splitted[2], "")
                      /\ i' = i
    /\ UNCHANGED <<module, mode, dry, prev_calls, remote_policies, remote_policies0,
                   distant_policies, local_policies, reports, policy_files0>>
    /\ UNCHANGED authState
    /\ UNCHANGED runState
    /\ UNCHANGED kvState

(***************************************************************************)
(* run of VaultManagerAuth and VaultManagerPolicies                        *)
(***************************************************************************)
\* values of a command line argument: absent, the empty string, a usable value
ArgValues == {"None", "", "set"}

NoArgs == [vault_addr |-> "set", vault_token |-> "set", vault_config |-> "set",
           push |-> FALSE, pull |-> FALSE, export |-> "None"]

AuthArgs ==
    {[NoArgs EXCEPT !.vault_addr = a, !.vault_token = t, !.vault_config = c, !.push = f] :
        a \in ArgValues, t \in ArgValues, c \in ArgValues, f \in BOOLEAN}

PoliciesArgs ==
    {[NoArgs EXCEPT !.vault_addr = a, !.vault_token = t, !.vault_config = c,
                    !.push = f, !.pull = g] :
        a \in ArgValues, t \in ArgValues, c \in ArgValues, f \in BOOLEAN, g \in BOOLEAN}

\* the keys run requires, each with the values that count as missing
RequiredArgs ==
    {[key |-> "vault_addr", exc |-> {"None", ""}],
     [key |-> "vault_token", exc |-> {"None", "False"}],
     [key |-> "vault_config", exc |-> {"None", "False", ""}]}

\* utils.keys_exists_in_dict, from the design document: the required keys whose
\* value is one of the excluded values
KeysExistsInDict(d, keys) == {k \in keys : d[k.key] \in k.exc}

\* mutant: vault_config is not required
MissingArgsNoConfig(a) == KeysExistsInDict(a, {k \in RequiredArgs : k.key # "vault_config"})

MissingArgs(a) == KeysExistsInDict(a, RequiredArgs)

\* VaultManagerAuth.check_args_integrity
AuthCheckArgsIntegrity(a) == a.push

\* VaultManagerPolicies.check_args_integrity: the builtins all and any take one
\* iterable; called with two arguments they raise TypeError
PoliciesCheckArgsIntegrity(a) == "TypeError"

ReturnFalse ==
    /\ outcome' = "False"
    /\ pc' = "returned"

RaiseFromRun(exception) ==
    /\ outcome' = exception
    /\ pc' = OnException(pc)

\* VaultManagerAuth.run up to the call of auth_push
RunAuth ==
    /\ module = "auth" /\ pc = "run"
    /\ \/ /\ ~AuthCheckArgsIntegrity(args)
          /\ ReturnFalse
          /\ UNCHANGED <<client_log, err>>
       \/ /\ AuthCheckArgsIntegrity(args)
          /\ MissingArgs(args) # {}
          /\ RaiseFromRun("ValueError")
          /\ UNCHANGED <<client_log, err>>
       \/ /\ AuthCheckArgsIntegrity(args)
          /\ MissingArgs(args) = {}
          /\ \/ /\ client_log' = client_log \o <<"create", "authenticate">>
                /\ pc' = IF args.push THEN "read_configuration" ELSE "done"
                /\ UNCHANGED <<outcome, err>>
             \/ /\ client_log' = client_log \o <<"create", "authenticate">>
                /\ Raise("remote")
                /\ outcome' = outcome
    /\ UNCHANGED <<module, mode, dry, i, calls, prev_calls, entry, args, environ>>
    /\ UNCHANGED authState
    /\ UNCHANGED policyState
    /\ UNCHANGED pullState
    /\ UNCHANGED kvState

\* VaultManagerPolicies.run
RunPolicies ==
    /\ module = "policies" /\ pc = "run"
    /\ LET integrity == PoliciesCheckArgsIntegrity(args)
       IN IF integrity = "TypeError"
          THEN /\ RaiseFromRun("TypeError")
               /\ UNCHANGED <<client_log, err>>
          ELSE IF integrity = "False"
          THEN /\ ReturnFalse
               /\ UNCHANGED <<client_log, err>>
          ELSE IF MissingArgs(args) # {}
          THEN /\ RaiseFromRun("ValueError")
               /\ UNCHANGED <<client_log, err>>
          ELSE /\ client_log' = client_log \o <<"create", "authenticate">>
               /\ pc' = IF args.pull THEN "pull_list" ELSE "policy_list"
               /\ UNCHANGED <<outcome, err>>
    /\ UNCHANGED <<module, mode, dry, i, calls, prev_calls, entry, args, environ>>
    /\ UNCHANGED authState
    /\ UNCHANGED policyState
    /\ UNCHANGED pullState
    /\ UNCHANGED kvState

(***************************************************************************)
(* VaultManagerKV                                                          *)
(***************************************************************************)
NeededEnvVars == {"VAULT_ADDR", "VAULT_TOKEN", "VAULT_TARGET_ADDR", "VAULT_TARGET_TOKEN"}

Environs == {NeededEnvVars} \cup {NeededEnvVars \ {v} : v \in NeededEnvVars}

\* --export PATH_TO_EXPORT, absent or given
KVArgs == {[NoArgs EXCEPT !.export = e] : e \in {"None", "r"}}

CheckEnvVars(env) == \A env_var \in NeededEnvVars : env_var \in env

\* secret paths, in the order of the recursive listing: two leaves under the
\* exported root 'r' and one outside of it
KVPaths == <<"r/a", "r/b", "o/c">>

UnderRoot(root) == IF root = "r" THEN {"r/a", "r/b"} ELSE {}

Documents == {"d1", "d2"}

Sources ==
    {[q \in {"r/a", "r/b", "o/c"} |->
         IF q = "r/a" THEN a ELSE IF q = "r/b" THEN b ELSE c] :
        a \in Documents \cup {"absent"}, b \in Documents \cup {"absent"}, c \in {"absent", "d1"}}

Targets ==
    {[q \in {"r/a", "r/b", "o/c"} |->
         IF q = "r/a" THEN a ELSE IF q = "o/c" THEN c ELSE "absent"] :
        a \in {"absent", "d1", "d9"}, c \in {"absent", "d9"}}

NoSecrets == [q \in {"r/a", "r/b", "o/c"} |-> "absent"]

\* lib/VaultClient.py secret calls, from the design document
GetSecretsTree(src, root) ==
    SelectSeq(KVPaths, LAMBDA q : q \in UnderRoot(root) /\ src[q] # "absent")

ReadSecret(src, q) == src[q]

Write(tgt, d, q, doc) == IF d THEN tgt ELSE [tgt EXCEPT ![q] = doc]

\* kv_full[kv] = document
DictPut(full, kv, doc) ==
    IF \E n \in 1..Len(full) : full[n].path = kv
    THEN [n \in 1..Len(full) |-> IF full[n].path = kv THEN [path |-> kv, doc |-> doc] ELSE full[n]]
    ELSE Append(full, [path |-> kv, doc |-> doc])

\* exported_kv[secret]
DictGet(exported_kv, secret) ==
    (CHOOSE e \in {exported_kv[n] : n \in 1..Len(exported_kv)} : e.path = secret).doc

\* mutant: every secret is written with the document of the first one
WriteCallFirstDocument(secret, exported_kv) == PolicyCall("write", secret, exported_kv[1].doc)

\* vault_client.write(secret, exported_kv[secret], hide_all=True)
WriteCall(secret, exported_kv) == PolicyCall("write", secret, DictGet(exported_kv, secret))

\* a record of the logger: level, constant text, and the values formatted into it
LogRecord(level, msg, arg) == [level |-> level, msg |-> msg, arg |-> arg]

\* mutant: the document goes into the record
ExportingSecretWithDocument(secret, exported_kv) ==
    LogRecord("debug", "Exporting secret: ", <<secret, DictGet(exported_kv, secret)>>)

\* self.logger.debug("Exporting secret: " + secret)
ExportingSecret(secret, exported_kv) == LogRecord("debug", "Exporting secret: ", <<secret>>)

KVAfterStep(step) ==
    CASE step = "run" -> "kv_read_client"
      [] step = "kv_read_client" -> "kv_tree"
      [] step = "kv_tree" -> "kv_read"
      [] step = "kv_read" -> "kv_push_client"
      [] step = "kv_push_client" -> "kv_write"
      [] step = "kv_write" -> "exported"

KVRunning == module = "kv"

\* VaultManagerKV.run up to the call of read_from_vault
RunKV ==
    /\ KVRunning /\ pc = "run"
    /\ \/ /\ ~CheckEnvVars(environ)
          /\ ReturnFalse
          /\ log' = log \o <<LogRecord("critical", "The following env vars must be set", <<>>),
                             LogRecord("critical", "needed_env_vars", <<"VAULT_ADDR", "VAULT_TOKEN", "VAULT_TARGET_ADDR", "VAULT_TARGET_TOKEN">>)>>
       \/ /\ CheckEnvVars(environ)
          /\ args.export = "None"
          /\ ReturnFalse
          /\ log' = log \o <<LogRecord("info", "Vault address: ", <<"VAULT_ADDR">>),
                             LogRecord("error", "Only one parameter should be specified", <<>>)>>
       \/ /\ CheckEnvVars(environ)
          /\ args.export # "None"
          /\ pc' = KVAfterStep(pc)
          /\ outcome' = outcome
          /\ log' = Append(log, LogRecord("info", "Vault address: ", <<"VAULT_ADDR">>))
    /\ UNCHANGED <<module, mode, dry, err, i, calls, prev_calls, entry, args, environ, client_log,
                   source, target, target0, kv_list, kv_full>>
    /\ UNCHANGED authState
    /\ UNCHANGED policyState
    /\ UNCHANGED pullState

\* read_from_vault: the client of the source instance
KVReadClient ==
    /\ KVRunning /\ pc = "kv_read_client"
    /\ client_log' = client_log \o <<"create", "authenticate">>
    /\ \/ /\ pc' = KVAfterStep(pc)
          /\ log' = Append(log, LogRecord("info", "Exporting %s from %s to %s",
                                          <<args.export, "VAULT_ADDR", "VAULT_TARGET_ADDR">>))
          /\ err' = err
       \/ /\ Raise("remote")
          /\ log' = log
    /\ UNCHANGED <<module, mode, dry, i, calls, prev_calls, entry, args, environ, outcome,
                   source, target, target0, kv_list, kv_full>>
    /\ UNCHANGED authState
    /\ UNCHANGED policyState
    /\ UNCHANGED pullState

\* read_from_vault: the recursive listing
KVGetSecretsTree ==
    /\ KVRunning /\ pc = "kv_tree"
    /\ calls' = Append(calls, PolicyCall("tree", args.export, "-"))
    /\ \/ /\ kv_list' = GetSecretsTree(source, args.export)
          /\ log' = Append(log, LogRecord("debug", "Secrets found: ",
                                          GetSecretsTree(source, args.export)))
          /\ pc' = KVAfterStep(pc) /\ i' = 1
          /\ err' = err
       \/ /\ Raise("remote")
          /\ UNCHANGED <<kv_list, log, i>>
    /\ UNCHANGED <<module, mode, dry, prev_calls, source, target, target0, kv_full>>
    /\ UNCHANGED authState
    /\ UNCHANGED policyState
    /\ UNCHANGED pullState
    /\ UNCHANGED runState

\* read_from_vault: one turn of the loop over kv_list
KVReadSecret ==
    /\ KVRunning /\ pc = "kv_read"
    /\ \/ /\ i > Len(kv_list)
          /\ pc' = KVAfterStep(pc) /\ i' = 1
          /\ UNCHANGED <<err, calls, kv_full>>
       \/ /\ i <= Len(kv_list)
          /\ calls' = Append(calls, PolicyCall("read", kv_list[i], "-"))
          /\ \/ /\ kv_full' = DictPut(kv_full, kv_list[i], ReadSecret(source, kv_list[i]))
                /\ i' = i + 1
                /\ UNCHANGED <<pc, err>>
             \/ /\ Raise("remote")
                /\ UNCHANGED <<kv_full, i>>
    /\ UNCHANGED <<module, mode, dry, prev_calls, source, target, target0, kv_list, log>>
    /\ UNCHANGED authState
    /\ UNCHANGED policyState
    /\ UNCHANGED pullState
    /\ UNCHANGED runState

\* push_to_vault: the client of the target instance
KVPushClient ==
    /\ KVRunning /\ pc = "kv_push_client"
    /\ client_log' = client_log \o <<"create_target", "authenticate_target">>
    /\ \/ /\ pc' = KVAfterStep(pc)
          /\ err' = err
       \/ /\ Raise("remote")
    /\ UNCHANGED <<module, mode, dry, i, calls, prev_calls, entry, args, environ, outcome>>
    /\ UNCHANGED authState
    /\ UNCHANGED policyState
    /\ UNCHANGED pullState
    /\ UNCHANGED kvState

\* push_to_vault: one turn of the loop over exported_kv
KVWrite ==
    /\ KVRunning /\ pc = "kv_write"
    /\ \/ /\ i > Len(kv_full)
          /\ pc' = KVAfterStep(pc) /\ i' = 1
          /\ UNCHANGED <<err, calls, target, log>>
       \/ /\ i <= Len(kv_full)
          /\ log' = Append(log, ExportingSecret(kv_full[i].path, kv_full))
          /\ calls' = Append(calls, WriteCall(kv_full[i].path, kv_full))
          /\ \/ /\ target' = Write(target, dry, kv_full[i].path, WriteCall(kv_full[i].path, kv_full).content)
                /\ i' = i + 1
                /\ UNCHANGED <<pc, err>>
             \/ /\ ~dry
                /\ Raise("remote")
                /\ UNCHANGED <<target, i>>
    /\ UNCHANGED <<module, mode, dry, prev_calls, source, target0, kv_list, kv_full>>
    /\ UNCHANGED authState
    /\ UNCHANGED policyState
    /\ UNCHANGED pullState
    /\ UNCHANGED runState

(***************************************************************************)
(* Invocations                                                             *)
(***************************************************************************)
StartPc(m) == IF m = "auth" THEN "read_configuration" ELSE "policy_list"

\* a new process: every attribute of the module object starts afresh
Restart ==
    /\ pc' = StartPc(module)
    /\ conf' = NoConf /\ local_auth_methods' = <<>> /\ distant_auth_methods' = <<>>
    /\ distant_policies' = <<>> /\ local_policies' = <<>> /\ reports' = <<>>
    /\ i' = 1 /\ j' = 1
    /\ prev_calls' = calls /\ calls' = <<>>
    /\ UNCHANGED <<module, err, file, policy_files>>
    /\ UNCHANGED pullState
    /\ UNCHANGED runState
    /\ UNCHANGED kvState

\* the same command line is run again against the remote state the last run left
Rerun ==
    /\ pc = "done" /\ mode = "first"
    /\ Restart
    /\ mode' = "rerun"
    /\ remote0' = remote /\ remote_policies0' = remote_policies
    /\ UNCHANGED <<dry, remote, remote_policies>>

\* the same inputs (local declaration, initial remote state) are run in the other dry mode
Twin ==
    /\ pc = "done" /\ mode = "first"
    /\ Restart
    /\ mode' = "twin"
    /\ dry' = ~dry
    /\ remote' = remote0 /\ remote_policies' = remote_policies0
    /\ UNCHANGED <<remote0, remote_policies0>>

InitCommon ==
    /\ mode = "first"
    /\ dry \in BOOLEAN
    /\ err = "none"
    /\ conf = NoConf
    /\ local_auth_methods = <<>> /\ distant_auth_methods = <<>>
    /\ distant_policies = <<>> /\ local_policies = <<>> /\ reports = <<>>
    /\ i = 1 /\ j = 1
    /\ calls = <<>> /\ prev_calls = <<>>
    /\ outcome = "none"
    /\ kv_list = <<>> /\ kv_full = <<>> /\ log = <<>>

\* an operation entered directly: the client exists and is authenticated
MethodEntry ==
    /\ entry = "method"
    /\ args = NoArgs /\ environ = {}
    /\ client_log = <<"create", "authenticate">>

NoKV == source = NoSecrets /\ target = NoSecrets /\ target0 = NoSecrets

InitAuth ==
    /\ module = "auth" /\ pc = StartPc("auth")
    /\ file \in ConfFiles
    /\ remote \in Remotes /\ remote0 = remote
    /\ policy_files = <<>> /\ remote_policies = <<>> /\ remote_policies0 = <<>>
    /\ policy_dirs = {} /\ policy_files0 = <<>>
    /\ MethodEntry /\ NoKV

InitPolicies ==
    /\ module = "policies" /\ pc = StartPc("policies")
    /\ file = [state |-> "missing", doc |-> NoDoc]
    /\ remote = {} /\ remote0 = {}
    /\ policy_files \in {fs \in FileLists(MaxFiles) : DistinctFiles(fs)}
    /\ remote_policies \in {ps \in RemoteLists(MaxRemote) : DistinctNames(ps)}
    /\ remote_policies0 = remote_policies
    /\ policy_dirs = DirectoriesOf(policy_files) /\ policy_files0 = policy_files
    /\ MethodEntry /\ NoKV

\* policies_pull is entered on one of a few disks, the remote service holding
\* names that match the pattern and names that do not
InitPull ==
    /\ module = "policies" /\ pc = "pull_list"
    /\ file = [state |-> "missing", doc |-> NoDoc]
    /\ remote = {} /\ remote0 = {}
    /\ \E d \in PullDisks :
          policy_files = d.files /\ policy_dirs = d.dirs /\ policy_files0 = d.files
    /\ remote_policies \in {ps \in PullLists(MaxRemote) : DistinctNames(ps)}
    /\ remote_policies0 = remote_policies
    /\ MethodEntry /\ NoKV

\* the declaration and the remote state on which run of VaultManagerAuth is entered
RunFile == [state |-> "ok", doc |-> [has_methods |-> TRUE, deletion |-> "true",
                                     methods |-> <<RawMethod("ldap", "p", TRUE, T1, "cfg")>>]]

InitRunAuth ==
    /\ module = "auth" /\ pc = "run" /\ entry = "run"
    /\ args \in AuthArgs /\ environ = {} /\ client_log = <<>>
    /\ file = RunFile
    /\ remote = {} /\ remote0 = {}
    /\ policy_files = <<>> /\ remote_policies = <<>> /\ remote_policies0 = <<>>
    /\ policy_dirs = {} /\ policy_files0 = <<>>
    /\ NoKV

InitRunPolicies ==
    /\ module = "policies" /\ pc = "run" /\ entry = "run"
    /\ args \in PoliciesArgs /\ environ = {} /\ client_log = <<>>
    /\ file = [state |-> "missing", doc |-> NoDoc]
    /\ remote = {} /\ remote0 = {}
    /\ policy_files = <<PolicyFile(<<"a">>, <<"c">>, "h1")>>
    /\ policy_dirs = {<<"a">>} /\ policy_files0 = policy_files
    /\ remote_policies = <<[name |-> PolicyName(<<"b">>, <<"c">>), content |-> "h3"]>>
    /\ remote_policies0 = remote_policies
    /\ NoKV

InitRunKV ==
    /\ module = "kv" /\ pc = "run" /\ entry = "run"
    /\ args \in KVArgs /\ environ \in Environs /\ client_log = <<>>
    /\ file = [state |-> "missing", doc |-> NoDoc]
    /\ remote = {} /\ remote0 = {}
    /\ policy_files = <<>> /\ remote_policies = <<>> /\ remote_policies0 = <<>>
    /\ policy_dirs = {} /\ policy_files0 = <<>>
    /\ source \in Sources /\ target \in Targets /\ target0 = target

Init ==
    InitCommon /\ (InitAuth \/ InitPolicies \/ InitPull
                   \/ InitRunAuth \/ InitRunPolicies \/ InitRunKV)

Next ==
    \/ ReadConfiguration
    \/ GetDistantAuthMethods
    \/ GetLocalAuthMethods
    \/ DisableDistantAuthMethods
    \/ EnableDistantAuthMethods
    \/ FindAuthMethodsToTune
    \/ AuthMethodConfiguration
    \/ PushListPolicies
    \/ PushBuildLocal
    \/ PushRemoveDistant
    \/ PushLocalPolicies
    \/ PullListPolicies
    \/ PullPolicy
    \/ RunAuth
    \/ RunPolicies
    \/ RunKV
    \/ KVReadClient
    \/ KVGetSecretsTree
    \/ KVReadSecret
    \/ KVPushClient
    \/ KVWrite
    \/ Rerun
    \/ Twin

Spec == Init /\ [][Next]_vars

(***************************************************************************)
(* Properties                                                              *)
(***************************************************************************)
CallsWith(ops) == SelectSeq(calls, LAMBDA c : c.op \in ops)

PrevCallsWith(ops) == SelectSeq(prev_calls, LAMBDA c : c.op \in ops)

ObservedPolicyNames == {remote_policies0[n].name : n \in 1..Len(remote_policies0)}

Declared == {file.doc.methods[n] : n \in 1..Len(file.doc.methods)}

DeletionFlagOff == file.doc.deletion \in {"absent", "false"}

\* C1: during policies_push a remote policy name that does not split on '_' into
\* exactly three segments ending in 'policy' is never passed to policy_delete or
\* to policy_set.
C1_ForeignNeverTouched ==
    module = "policies" =>
        \A n \in 1..Len(calls) :
            calls[n].op \in {"delete", "set"} =>
                ~(calls[n].name \in ObservedPolicyNames /\ ~MatchesPattern(calls[n].name))

\* C2: with the 'auth-methods-deletion' flag absent or false, auth_push makes no
\* auth_disable call at all, and an observed mount whose (type, path) is not
\* declared is the target of no enable (its type and path), disable (its path)
\* or tune (its path) call.
C2_DeletionOptIn ==
    (module = "auth" /\ DeletionFlagOff) =>
        /\ \A n \in 1..Len(calls) : calls[n].op # "disable"
        /\ \A o \in remote0 :
             (\A d \in Declared : ~(d.type = o.type /\ d.path = o.path)) =>
                \A n \in 1..Len(calls) :
                    /\ ~(calls[n].op = "enable" /\ calls[n].type = o.type /\ calls[n].path = o.path)
                    /\ ~(calls[n].op \in {"disable", "tune"} /\ calls[n].path = o.path)

C2_Witness ==
    /\ module = "auth" /\ DeletionFlagOff /\ pc = "done"
    /\ \E o \in remote0 : \E d \in Declared : d.path = o.path /\ d.type # o.type
    /\ \E n \in 1..Len(calls) : calls[n].op = "enable"
    /\ \E n \in 1..Len(calls) : calls[n].op = "tune"

\* C3: for the same declaration and the same initial remote state, the run in
\* dry mode and the run in real mode pass the same sequence of identities to
\* disable, enable and tune (auth_push) and to delete and set (policies_push).
C3_DryRunEquivalence ==
    (mode = "twin" /\ pc = "done") =>
        CallsWith({"disable", "enable", "tune", "delete", "set"})
            = PrevCallsWith({"disable", "enable", "tune", "delete", "set"})

\* C4: a second auth_push, after a successful real (not dry) one, with the same
\* declaration and against the remote state the first one left, calls none of
\* auth_enable, auth_disable and auth_tune.
C4_Idempotent ==
    (module = "auth" /\ mode = "rerun" /\ ~dry) =>
        \A n \in 1..Len(calls) : calls[n].op \notin {"enable", "disable", "tune"}

\* C5: the remote calls of one auth_push come in phase order: the first listing,
\* then every disable, then every enable, then the second listing (refresh),
\* then every tune, then every method-specific configuration.
PhaseOf(n) ==
    CASE calls[n].op = "list" -> IF \E m \in 1..(n - 1) : calls[m].op = "list" THEN 3 ELSE 0
      [] calls[n].op = "disable" -> 1
      [] calls[n].op = "enable" -> 2
      [] calls[n].op = "tune" -> 4
      [] calls[n].op = "configure" -> 5

C5_PhaseOrder ==
    module = "auth" =>
        \A a, b \in 1..Len(calls) : a < b => PhaseOf(a) <= PhaseOf(b)

C5_Witness ==
    /\ module = "auth" /\ pc = "done"
    /\ \A op \in {"disable", "enable", "tune", "configure"} :
          \E n \in 1..Len(calls) : calls[n].op = op

\* C6: once a remote call of auth_push has failed, the run makes no further call
\* and the remote state stays as it was when the call failed: what was applied
\* before the failure remains, and nothing is undone.
C6_FailureStops ==
    [][module = "auth" =>
         /\ (err = "remote" /\ mode' = mode) => (calls' = calls /\ remote' = remote /\ pc' = pc)
         /\ (err = "none" /\ err' = "remote") => remote' = remote]_vars

C6_Witness ==
    /\ module = "auth" /\ err = "remote" /\ pc = "aborted"
    /\ remote # remote0
    /\ \E n \in 1..Len(calls) : calls[n].op = "enable"
    /\ calls[Len(calls)].op = "tune"

\* C7: when a configuration error of the auth declaration surfaces, no
\* auth_disable, auth_enable, auth_tune or method configuration call has been
\* made.
C7_ConfigErrorBeforeMutation ==
    (module = "auth" /\ err = "config") =>
        \A n \in 1..Len(calls) : calls[n].op \notin {"disable", "enable", "tune", "configure"}

\* C8: policies_push calls policy_delete on every observed name that matches the
\* pattern and decodes to a (category, name) without a local file, and on no
\* observed name whose (category, name) has a local file, in dry and real mode
\* alike.
HasLocalFile(name) ==
    \E n \in 1..Len(policy_files) :
        /\ policy_files[n].directory = Split(name, "_")[1]
        /\ policy_files[n].stem = Split(name, "_")[2]

C8_DeletesExtraneous ==
    module = "policies" =>
        /\ \A n \in 1..Len(calls) :
              (calls[n].op = "delete" /\ MatchesPattern(calls[n].name)) => ~HasLocalFile(calls[n].name)
        /\ pc \in {"push", "done"} =>
              \A name \in ObservedPolicyNames :
                 (MatchesPattern(name) /\ ~HasLocalFile(name)) =>
                    \E n \in 1..Len(calls) : calls[n] = PolicyCall("delete", name, "-")

C8_Witness ==
    /\ module = "policies" /\ pc = "done"
    /\ \E n \in 1..Len(calls) : calls[n].op = "delete" /\ MatchesPattern(calls[n].name)
    /\ \E name \in ObservedPolicyNames :
          /\ MatchesPattern(name) /\ HasLocalFile(name)
          /\ \A n \in 1..Len(calls) : ~(calls[n].op = "delete" /\ calls[n].name = name)

\* C9: a finished policies_push has called policy_set once per local file, in
\* file order, under '{category}_{name}_policy' with the file's content, and has
\* reported each 'updated' when that name was in the list fetched at the start
\* and 'created' otherwise.
C9_UpsertsEveryLocal ==
    (module = "policies" /\ pc = "done") =>
        /\ CallsWith({"set"}) =
              [n \in 1..Len(policy_files) |->
                  PolicyCall("set",
                             policy_files[n].directory \o <<"_">> \o policy_files[n].stem
                                \o <<"_", "p", "o", "l", "i", "c", "y">>,
                             policy_files[n].content)]
        /\ Len(reports) = Len(policy_files)
        /\ \A n \in 1..Len(reports) :
              /\ reports[n].name = CallsWith({"set"})[n].name
              /\ reports[n].status = "created" <=> reports[n].name \notin ObservedPolicyNames
              /\ reports[n].status = "updated" <=> reports[n].name \in ObservedPolicyNames

C9_Witness ==
    /\ module = "policies" /\ pc = "done"
    /\ \E n \in 1..Len(reports) : reports[n].status = "created"
    /\ \E n \in 1..Len(reports) : reports[n].status = "updated"

\* C10: when the tune step has finished, auth_tune has been called for exactly
\* the pairs (local, remote) of equal (type, path) whose tuning hashes differ,
\* and every auth_tune call carries the path, default_lease_ttl, max_lease_ttl
\* and description of the local declaration of such a pair.
TunedPair(c, l, d) ==
    /\ l.type = d.type /\ l.path = d.path
    /\ TuningHash(l) # TuningHash(d)
    /\ c.path = l.path
    /\ c.default_lease_ttl = l.tuning.default_lease_ttl
    /\ c.max_lease_ttl = l.tuning.max_lease_ttl
    /\ c.description = l.description

C10_TunesChanged ==
    module = "auth" =>
        /\ \A n \in 1..Len(calls) :
              calls[n].op = "tune" =>
                 \E a \in 1..Len(local_auth_methods), b \in 1..Len(distant_auth_methods) :
                    TunedPair(calls[n], local_auth_methods[a], distant_auth_methods[b])
        /\ pc \in {"configure", "done"} =>
              \A a \in 1..Len(local_auth_methods), b \in 1..Len(distant_auth_methods) :
                 (/\ local_auth_methods[a].type = distant_auth_methods[b].type
                  /\ local_auth_methods[a].path = distant_auth_methods[b].path
                  /\ TuningHash(local_auth_methods[a]) # TuningHash(distant_auth_methods[b])) =>
                    \E n \in 1..Len(calls) :
                       /\ calls[n].op = "tune"
                       /\ TunedPair(calls[n], local_auth_methods[a], distant_auth_methods[b])

C10_Witness ==
    /\ module = "auth" /\ pc = "done"
    /\ \E n \in 1..Len(calls) : calls[n].op = "tune"
    /\ \E a \in 1..Len(local_auth_methods), b \in 1..Len(distant_auth_methods) :
          /\ AuthEq(local_auth_methods[a], distant_auth_methods[b])
          /\ TuningHash(local_auth_methods[a]) = TuningHash(distant_auth_methods[b])
          /\ local_auth_methods[a].description # distant_auth_methods[b].description

\* C11: auth_enable is called, with the declared type, path and description, for
\* the declared mounts whose (type, path) is that of no observed mount, and for
\* no other; a declared mount with the (type, path) of an observed mount is
\* neither enabled nor disabled, whatever its description and tuning.
C11_EnablesMissing ==
    module = "auth" =>
        /\ \A n \in 1..Len(calls) :
              calls[n].op = "enable" =>
                 /\ \E a \in 1..Len(local_auth_methods) :
                       /\ calls[n].type = local_auth_methods[a].type
                       /\ calls[n].path = local_auth_methods[a].path
                       /\ calls[n].description = local_auth_methods[a].description
                 /\ \A o \in remote0 : ~(o.type = calls[n].type /\ o.path = calls[n].path)
        /\ pc \in {"refresh", "tune", "configure", "done"} =>
              \A a \in 1..Len(local_auth_methods) :
                 (\A o \in remote0 : ~(o.type = local_auth_methods[a].type
                                        /\ o.path = local_auth_methods[a].path)) =>
                    \E n \in 1..Len(calls) :
                       /\ calls[n].op = "enable"
                       /\ calls[n].type = local_auth_methods[a].type
                       /\ calls[n].path = local_auth_methods[a].path
                       /\ calls[n].description = local_auth_methods[a].description
        /\ \A a \in 1..Len(local_auth_methods) : \A o \in remote0 :
              (o.type = local_auth_methods[a].type /\ o.path = local_auth_methods[a].path) =>
                 \A n \in 1..Len(calls) :
                    /\ ~(calls[n].op = "enable" /\ calls[n].type = o.type /\ calls[n].path = o.path)
                    /\ ~(calls[n].op = "disable" /\ calls[n].path = o.path)

C11_Witness ==
    /\ module = "auth" /\ pc = "done" /\ file.doc.deletion = "true"
    /\ \E n \in 1..Len(calls) : calls[n].op = "enable"
    /\ \E n \in 1..Len(calls) : calls[n].op = "disable"
    /\ \E a \in 1..Len(local_auth_methods) : \E o \in remote0 :
          /\ o.type = local_auth_methods[a].type /\ o.path = local_auth_methods[a].path
          /\ o.config # local_auth_methods[a].tuning
          /\ o.description # local_auth_methods[a].description

\* C17 as claimed: a finished auth_push has invoked the method-specific
\* configuration once, with the mount's path and auth_config, for every declared
\* mount that carries an auth_config and whose type is 'ldap' or 'approle', and
\* for no other.
C17_ConfiguresEveryAuthConfig ==
    (module = "auth" /\ pc = "done") =>
        CallsWith({"configure"}) =
            LET chosen == SelectSeq(local_auth_methods,
                                    LAMBDA m : m.auth_config # "None" /\ m.type \in {"ldap", "approle"})
            IN [n \in 1..Len(chosen) |->
                   Call("configure", chosen[n].type, chosen[n].path, -1, -1, "-", chosen[n].auth_config)]

\* C17 as amended: a finished auth_push has invoked the method-specific
\* configuration once, with the mount's path and auth_config, for every declared
\* mount that carries a non-empty auth_config and whose type is 'ldap' or
\* 'approle', and for no other; the other mounts do not stop the run.
C17_ConfiguresNonEmptyAuthConfig ==
    (module = "auth" /\ pc = "done") =>
        CallsWith({"configure"}) =
            LET chosen == SelectSeq(local_auth_methods,
                                    LAMBDA m : m.auth_config \notin {"None", "empty"}
                                               /\ m.type \in {"ldap", "approle"})
            IN [n \in 1..Len(chosen) |->
                   Call("configure", chosen[n].type, chosen[n].path, -1, -1, "-", chosen[n].auth_config)]

C17_Witness ==
    /\ module = "auth" /\ pc = "done"
    /\ \E n \in 1..Len(calls) : calls[n].op = "configure" /\ calls[n].type = "approle"
    /\ \E a \in 1..Len(local_auth_methods) : local_auth_methods[a].auth_config = "None"

\* C18: in a real (not dry) auth_push whose tune step has finished, every mount
\* enabled in the run is in the listing fetched after the enable step, and it has
\* been tuned exactly when the tuning hash of its declaration differs from the
\* hash of the freshly listed mount.
C18_TunesFreshlyEnabled ==
    (module = "auth" /\ ~dry /\ pc \in {"configure", "done"}) =>
        \A n \in 1..Len(calls) :
            calls[n].op = "enable" =>
                /\ \E b \in 1..Len(distant_auth_methods) :
                      /\ distant_auth_methods[b].type = calls[n].type
                      /\ distant_auth_methods[b].path = calls[n].path
                /\ \A a \in 1..Len(local_auth_methods), b \in 1..Len(distant_auth_methods) :
                      (/\ local_auth_methods[a].type = calls[n].type
                       /\ local_auth_methods[a].path = calls[n].path
                       /\ distant_auth_methods[b].type = calls[n].type
                       /\ distant_auth_methods[b].path = calls[n].path) =>
                         ((\E m \in 1..Len(calls) :
                              /\ calls[m].op = "tune" /\ calls[m].path = calls[n].path
                              /\ m > n)
                          <=> TuningHash(local_auth_methods[a]) # TuningHash(distant_auth_methods[b]))

C18_Witness ==
    /\ module = "auth" /\ ~dry /\ pc = "done"
    /\ \E n \in 1..Len(calls) : calls[n].op = "enable" /\ calls[n].path = "q"
    /\ \E n \in 1..Len(calls) : calls[n].op = "tune" /\ calls[n].path = "p"
    /\ \A n \in 1..Len(calls) : ~(calls[n].op = "tune" /\ calls[n].path = "q")

\* C12: when policies_pull has finished, every remote policy whose name splits
\* on '_' into three segments ending with 'policy' has its remote content in
\* <policies_folder>/<segment 1>/<segment 2>.hcl, in an existing directory; every
\* other file on disk is as it was before the pull; and at no point of a pull has
\* policy_set or policy_delete been called.
C12_PullWritesDecodable ==
    (module = "policies" /\ pc \in {"pull_list", "pull", "pulled"}) =>
        /\ \A n \in 1..Len(calls) : calls[n].op \notin {"set", "delete"}
        /\ remote_policies = remote_policies0
        /\ pc = "pulled" =>
              /\ \A n \in 1..Len(remote_policies) :
                    LET segs == Split(remote_policies[n].name, "_")
                    IN (Len(segs) = 3 /\ segs[3] = POLICY) =>
                          /\ segs[1] \in policy_dirs
                          /\ \E f \in 1..Len(policy_files) :
                                policy_files[f] = PolicyFile(segs[1], segs[2], remote_policies[n].content)
              /\ \A f \in 1..Len(policy_files) :
                    \/ \E g \in 1..Len(policy_files0) : policy_files0[g] = policy_files[f]
                    \/ \E n \in 1..Len(remote_policies) :
                          LET segs == Split(remote_policies[n].name, "_")
                          IN /\ Len(segs) = 3 /\ segs[3] = POLICY
                             /\ policy_files[f].directory = segs[1]
                             /\ policy_files[f].stem = segs[2]

C12_Witness ==
    /\ module = "policies" /\ pc = "pulled"
    /\ policy_files0 = <<PolicyFile(<<"a">>, <<"c">>, "h1")>>
    /\ policy_files = <<PolicyFile(<<"a">>, <<"c">>, "h0")>>
    /\ Len(distant_policies) = 2
    /\ \E n \in 1..Len(distant_policies) : distant_policies[n] = <<"a", "_", "b", "_", "n", "o", "t">> \o POLICY

NoUnderscore(s) == \A n \in 1..Len(s) : s[n] # "_"

\* C13: the name policies_push builds for a file whose directory and stem hold
\* no underscore is split by the rule of policies_pull into exactly three
\* segments: the directory, the stem and 'policy'; and a pull that lists 'foo',
\* 'a_b', 'a_b_c_d' or 'a_b_notpolicy' fetches none of them.
C13_CodecRoundTrip ==
    module = "policies" =>
        /\ pc \in {"remove", "push", "done"} =>
              \A n \in 1..Len(local_policies) :
                  (NoUnderscore(policy_files[n].directory) /\ NoUnderscore(policy_files[n].stem)) =>
                      /\ MatchesPattern(local_policies[n].name)
                      /\ Split(local_policies[n].name, "_")
                            = <<policy_files[n].directory, policy_files[n].stem, POLICY>>
        /\ pc \in {"pull", "pulled"} =>
              \A n \in 1..Len(calls) :
                  calls[n].name \notin {<<"f", "o", "o">>, <<"a", "_", "b">>,
                                        <<"a", "_", "b", "_", "c", "_", "d">>,
                                        <<"a", "_", "b", "_", "n", "o", "t">> \o POLICY}

C13_Witness ==
    /\ module = "policies" /\ pc = "done"
    /\ \E n \in 1..Len(policy_files) :
          /\ policy_files[n].directory = <<"a">> /\ policy_files[n].stem = <<"c">>
          /\ \E m \in 1..Len(calls) :
                calls[m].op = "set" /\ calls[m].name = <<"a", "_", "c", "_">> \o POLICY

\* C19: every name handed to policy_set splits into three segments ending with
\* 'policy' whose first two are the directory and the stem of the file it was
\* built from, and two different files never get the same name.
C19_WrittenNamesWellFormed ==
    (module = "policies" /\ pc \in {"remove", "push", "done"}) =>
        /\ \A m \in 1..Len(calls) :
              calls[m].op = "set" =>
                 LET segs == Split(calls[m].name, "_")
                 IN /\ Len(segs) = 3 /\ segs[3] = POLICY
                    /\ \E n \in 1..Len(policy_files) :
                          policy_files[n].directory = segs[1] /\ policy_files[n].stem = segs[2]
        /\ \A a, b \in 1..Len(local_policies) :
              a # b => local_policies[a].name # local_policies[b].name

\* C14: when a KV export has finished, the secrets read are the leaves under the
\* exported root that the source holds, each read once, in listing order; the
\* secrets written are the same paths, each written once with the document the
\* source holds there; in a real run the target then holds that document at each
\* of these paths, whatever it held before, and is unchanged at every other path.
C14_FullCopy ==
    (module = "kv" /\ pc = "exported") =>
        LET listed == SelectSeq(KVPaths, LAMBDA q : q \in {"r/a", "r/b"} /\ source[q] # "absent")
        IN /\ CallsWith({"read"}) = [n \in 1..Len(listed) |-> PolicyCall("read", listed[n], "-")]
           /\ CallsWith({"write"}) =
                 [n \in 1..Len(listed) |-> PolicyCall("write", listed[n], source[listed[n]])]
           /\ target = [q \in DOMAIN target0 |->
                           IF ~dry /\ \E n \in 1..Len(listed) : listed[n] = q
                           THEN source[q] ELSE target0[q]]

C14_Witness ==
    /\ module = "kv" /\ pc = "exported" /\ ~dry
    /\ source["r/a"] = "d1" /\ source["r/b"] = "d2" /\ source["o/c"] = "d1"
    /\ target0["r/a"] = "d9" /\ target0["o/c"] = "absent"
    /\ target["r/a"] = "d1" /\ target["r/b"] = "d2" /\ target["o/c"] = "absent"

\* a required input is absent
RequiredInputMissing ==
    \/ /\ module \in {"auth", "policies"}
       /\ \/ args.vault_addr = "None"
          \/ args.vault_token = "None"
          \/ args.vault_config = "None"
    \/ /\ module = "kv"
       /\ \/ \E v \in {"VAULT_ADDR", "VAULT_TOKEN", "VAULT_TARGET_ADDR", "VAULT_TARGET_TOKEN"} :
                v \notin environ
          \/ args.export = "None"

\* C15: a run entered with a required input absent never creates or
\* authenticates a client and never makes a remote call, and once it has left
\* its first statement it has ended with False or with an exception.
C15_MissingInputFailsEarly ==
    (entry = "run" /\ RequiredInputMissing) =>
        /\ client_log = <<>>
        /\ calls = <<>>
        /\ pc # "run" => (outcome \in {"False", "ValueError", "TypeError"}
                          /\ pc \in {"returned", "aborted"})

C15_Witness ==
    /\ entry = "run" /\ module = "auth" /\ outcome = "ValueError"
    /\ args.push /\ args.vault_config = "None" /\ args.vault_addr = "set" /\ args.vault_token = "set"

\* C16: no record logged by a KV export holds a document; the 'Secrets found'
\* record holds the listed paths and the 'Exporting secret' records are, in
\* order, the paths of the write calls made so far, so that the log is
\* determined by the root, the set of paths and the point the export reached.
C16_LogIndependentOfContent ==
    module = "kv" =>
        /\ \A n \in 1..Len(log) : \A k \in 1..Len(log[n].arg) :
              log[n].arg[k] \in {"VAULT_ADDR", "VAULT_TOKEN", "VAULT_TARGET_ADDR", "VAULT_TARGET_TOKEN",
                                 "r", "r/a", "r/b", "o/c"}
        /\ SelectSeq(log, LAMBDA r : r.msg = "Exporting secret: ") =
              [n \in 1..Len(CallsWith({"write"})) |->
                  [level |-> "debug", msg |-> "Exporting secret: ", arg |-> <<CallsWith({"write"})[n].name>>]]
        /\ \A n \in 1..Len(log) :
              log[n].msg = "Secrets found: " =>
                 log[n].arg = SelectSeq(KVPaths, LAMBDA q : q \in {"r/a", "r/b"} /\ source[q] # "absent")

C16_Witness ==
    /\ module = "kv" /\ pc = "exported"
    /\ source["r/a"] = "d2" /\ source["r/b"] = "d1"
    /\ \E n \in 1..Len(log) : log[n].msg = "Exporting secret: " /\ log[n].arg = <<"r/b">>
    /\ \E n \in 1..Len(log) : log[n].msg = "Secrets found: " /\ log[n].arg = <<"r/a", "r/b">>

\* C20: VaultManagerPolicies.run entered with every required argument present
\* and left: with exactly one of pull and push set it has raised nothing,
\* returned nothing and created its client to execute the operation; with both
\* or neither set it has returned False without a client and without a call.
C20_RunDispatch ==
    (/\ module = "policies" /\ entry = "run" /\ pc # "run"
     /\ args.vault_addr = "set" /\ args.vault_token = "set" /\ args.vault_config = "set") =>
        IF args.pull # args.push
        THEN /\ outcome = "none"
             /\ client_log = <<"create", "authenticate">>
             /\ \A n \in 1..Len(calls) :
                   calls[n].op \in (IF args.pull THEN {"list", "get"} ELSE {"list", "delete", "set"})
        ELSE /\ outcome = "False"
             /\ client_log = <<>>
             /\ calls = <<>>

\* C21: in a KV export no listing or read call follows a write call; a failed
\* call ends the run; when the failed call is the listing, a read, or the
\* creation of a client, no write call has been made and the target is as it
\* was; when the failed call is a write, every leaf written before it holds on
\* the target the document that was written.
C21_ReadsBeforeWrites ==
    module = "kv" =>
        /\ \A m, n \in 1..Len(calls) :
              (m < n /\ calls[m].op = "write") => calls[n].op = "write"
        /\ err = "remote" =>
              /\ pc = "aborted"
              /\ (calls = <<>> \/ calls[Len(calls)].op # "write") =>
                    /\ \A n \in 1..Len(calls) : calls[n].op # "write"
                    /\ target = target0
              /\ (calls # <<>> /\ calls[Len(calls)].op = "write") =>
                    \A n \in 1..(Len(calls) - 1) :
                        calls[n].op = "write" => target[calls[n].name] = calls[n].content

C21_Witness ==
    /\ module = "kv" /\ pc = "aborted" /\ err = "remote"
    /\ Len(CallsWith({"read"})) = 2
    /\ Len(CallsWith({"write"})) = 2
    /\ target0["r/a"] = "d9" /\ target["r/a"] = "d2" /\ target["r/b"] = "absent"

\* C22: in a real auth_push with deletion enabled and declared mounts of pairwise
\* distinct paths, whenever auth_enable is called the remote service holds no
\* mount at the path of the call, and a mount observed at that path at the start
\* has been the object of an earlier auth_disable call.
C22_DisableBeforeEnable ==
    [][(/\ module = "auth" /\ ~dry /\ conf.deletion = "true"
        /\ \A a, b \in 1..Len(local_auth_methods) :
              a # b => local_auth_methods[a].path # local_auth_methods[b].path
        /\ Len(calls') = Len(calls) + 1
        /\ calls'[Len(calls')].op = "enable") =>
           /\ \A o \in remote : o.path # calls'[Len(calls')].path
           /\ \A o \in remote0 :
                 o.path = calls'[Len(calls')].path =>
                    \E n \in 1..Len(calls) :
                        calls[n].op = "disable" /\ calls[n].path = o.path]_vars

C22_Witness ==
    /\ module = "auth" /\ ~dry /\ conf.deletion = "true" /\ pc = "done"
    /\ \E o \in remote0, m, n \in 1..Len(calls) :
          /\ m < n
          /\ calls[m].op = "disable" /\ calls[m].path = o.path
          /\ calls[n].op = "enable" /\ calls[n].path = o.path /\ calls[n].type # o.type
          /\ \E r \in remote : r.path = o.path /\ r.type = calls[n].type

====
